---- MODULE Spec2Model ----
(***************************************************************************)
(* Stock research dashboard (app.py): the per-symbol CSV cache with its    *)
(* 24-hour validity rule, fetch_stock_data with its bounded retry loop,    *)
(* get_stock_metadata, generate_investment_report and the two JSON routes. *)
(* Requests are served by concurrent threads that share only the cache     *)
(* files and the clock.                                                    *)
(***************************************************************************)
EXTENDS Integers, Sequences, FiniteSets, TLC

VARIABLES now, files, procs, gemini_client

vars == <<now, files, procs, gemini_client>>

----------------------------------------------------------------------------
(* Program constants *)

CACHE_TTL_HOURS == 24
SecondsPerHour == 3600
max_retries == 3
RetryDelay == 2

CacheTtlSeconds == CACHE_TTL_HOURS * SecondsPerHour

SUPPORTED_STOCKS ==
    [s \in {"RELIANCE.NS", "TCS.NS", "INFY.NS", "HDFCBANK.NS"} |->
        CASE s = "RELIANCE.NS" -> "Reliance Industries"
          [] s = "TCS.NS"      -> "Tata Consultancy Services"
          [] s = "INFY.NS"     -> "Infosys"
          [] OTHER             -> "HDFC Bank"]

----------------------------------------------------------------------------
(* Bounds of the model *)

\* The clock is sampled in the first seconds after start and from one second
\* before one TTL later until a whole retry loop (two sleeps) after it.
MaxSkew == 0
\* Largest close price the upstream provider reports.
MaxClose == 3

Times ==
    (0..MaxSkew) \cup ((CacheTtlSeconds - 1)..(CacheTtlSeconds + 2 * RetryDelay + MaxSkew))

\* Threads serving requests, and the symbols a caller may ask for.
Procs == {"r1", "r2"}
RequestSymbols == {"RELIANCE.NS", "TCS.NS", "BOGUS.NS"}

----------------------------------------------------------------------------
(* Data frames and the CSV file layout *)

Bar(d, c) == [date |-> d, close |-> c]

NoDf == << >>

\* Series the upstream provider can answer with (ascending dates).
SeriesPool ==
    { << Bar(1, 1) >>,
      << Bar(1, 2), Bar(2, MaxClose) >> }

Header == << "Date", "Close" >>

\* DataFrame.to_csv: a header line, then one line of formatted cells per bar.
to_csv(df) ==
    << Header >> \o [i \in 1..Len(df) |-> << ToString(df[i].date), ToString(df[i].close) >>]

ParseInt(s) == CHOOSE n \in 0..(MaxClose + 4) : ToString(n) = s

\* pd.read_csv(path, index_col=0, parse_dates=True): the first line names the
\* columns, every further line is one bar.  A file of zero bytes has no
\* columns to parse and read_csv raises EmptyDataError.
CanReadCsv(lines) == Len(lines) >= 1

read_csv(lines) ==
    [i \in 1..(Len(lines) - 1) |-> Bar(ParseInt(lines[i + 1][1]), ParseInt(lines[i + 1][2]))]

\* Optional numbers of the derived columns: a fraction num/den, or NaN.
NaN == [def |-> FALSE, num |-> 0, den |-> 1]
Frac(n, d) == [def |-> TRUE, num |-> n, den |-> d]

RECURSIVE SumClose(_, _, _)
SumClose(df, lo, hi) ==
    IF lo > hi THEN 0
    ELSE IF lo = hi THEN df[lo].close
    ELSE LET mid == (lo + hi) \div 2
         IN  SumClose(df, lo, mid) + SumClose(df, mid + 1, hi)

\* A rolling mean that fills the bars before the first full window with zero.
RollingMeanZeroFilled(df, w, i) ==
    IF i < w THEN Frac(0, 1) ELSE Frac(SumClose(df, i - w + 1, i), w)

\* df['Close'].rolling(window=w).mean(): NaN until w bars are in the window.
RollingMean(df, w, i) == IF i < w THEN NaN ELSE Frac(SumClose(df, i - w + 1, i), w)

\* A gain taken from the change to the next bar instead of from the previous.
GainLookahead(df, i) == IF i < Len(df) /\ df[i + 1].close - df[i].close > 0
                        THEN df[i + 1].close - df[i].close ELSE 0

\* delta = df['Close'].diff(); delta.where(delta > 0, 0) and
\* -delta.where(delta < 0, 0): the NaN delta of the first bar fails both
\* comparisons and is replaced by 0.
Gain(df, i) == IF i >= 2 /\ df[i].close - df[i - 1].close > 0
               THEN df[i].close - df[i - 1].close ELSE 0
Loss(df, i) == IF i >= 2 /\ df[i].close - df[i - 1].close < 0
               THEN df[i - 1].close - df[i].close ELSE 0

RECURSIVE SumGain(_, _, _)
SumGain(df, lo, hi) == IF lo > hi THEN 0 ELSE Gain(df, hi) + SumGain(df, lo, hi - 1)
RECURSIVE SumLoss(_, _, _)
SumLoss(df, lo, hi) == IF lo > hi THEN 0 ELSE Loss(df, hi) + SumLoss(df, lo, hi - 1)

\* rs = gain / loss; rsi = 100 - 100 / (1 + rs), in floating point:
\* x/0 is inf for x > 0 and NaN for x = 0, and 100/(1 + inf) is 0.
RsiAt(df, period, i) ==
    IF i < period THEN NaN
    ELSE LET g == SumGain(df, i - period + 1, i)
             l == SumLoss(df, i - period + 1, i)
         IN  IF l = 0 THEN (IF g = 0 THEN NaN ELSE Frac(100, 1))
             ELSE Frac(100 * g, g + l)

Row(df, i, ma20, ma50, ma200, rsi) ==
    [date |-> df[i].date, close |-> df[i].close,
     MA20 |-> ma20, MA50 |-> ma50, MA200 |-> ma200, RSI |-> rsi]

calculate_moving_averages(df) ==
    [i \in 1..Len(df) |->
        Row(df, i, RollingMean(df, 20, i), RollingMean(df, 50, i), RollingMean(df, 200, i), NaN)]

calculate_rsi(frame, period) ==
    [i \in 1..Len(frame) |-> [frame[i] EXCEPT !.RSI = RsiAt(frame, period, i)]]

NoFrame == << >>

----------------------------------------------------------------------------
(* get_stock_metadata *)

\* What yfinance's Ticker.info can hold: a dict with any subset of the keys.
FullInfo ==
    [k \in {"sector", "industry", "marketCap", "trailingPE", "dividendYield",
            "fiftyTwoWeekHigh", "fiftyTwoWeekLow"} |->
        CASE k = "sector"   -> "Energy"
          [] k = "industry" -> "Oil & Gas"
          [] OTHER          -> 7]
SparseInfo == [k \in {"industry", "trailingPE"} |-> IF k = "industry" THEN "IT Services" ELSE 5]

InfoPool == {SparseInfo}

\* dict.get(key, default)
Get(d, key, default) == IF key \in DOMAIN d THEN d[key] ELSE default

NoMeta ==
    [name |-> "", sector |-> "", industry |-> "", market_cap |-> 0, pe_ratio |-> 0,
     dividend_yield |-> 0, w52_high |-> 0, w52_low |-> 0]

\* The record of the try branch (lines 151-160).
MetaFromInfo(symbol, info) ==
    [name |-> Get(SUPPORTED_STOCKS, symbol, symbol),
     sector |-> Get(info, "sector", "N/A"),
     industry |-> Get(info, "industry", "N/A"),
     market_cap |-> Get(info, "marketCap", 0),
     pe_ratio |-> Get(info, "trailingPE", 0),
     dividend_yield |-> Get(info, "dividendYield", 0),
     w52_high |-> Get(info, "fiftyTwoWeekHigh", 0),
     w52_low |-> Get(info, "fiftyTwoWeekLow", 0)]

\* A fallback that does not fall back to the raw symbol.
MetaFallbackNoRawSymbol(symbol) ==
    [name |-> Get(SUPPORTED_STOCKS, symbol, "N/A"),
     sector |-> "N/A", industry |-> "N/A", market_cap |-> 0, pe_ratio |-> 0,
     dividend_yield |-> 0, w52_high |-> 0, w52_low |-> 0]

\* The record of the except branch (lines 163-172).
MetaFallback(symbol) ==
    [name |-> Get(SUPPORTED_STOCKS, symbol, symbol),
     sector |-> "N/A", industry |-> "N/A", market_cap |-> 0, pe_ratio |-> 0,
     dividend_yield |-> 0, w52_high |-> 0, w52_low |-> 0]

\* lookup is [raised |-> BOOLEAN, info |-> dict]: what stock.info did.
get_stock_metadata(symbol, lookup) ==
    IF lookup.raised THEN MetaFallback(symbol) ELSE MetaFromInfo(symbol, lookup.info)

MetaLookups ==
    {[raised |-> TRUE, info |-> FullInfo]} \cup {[raised |-> FALSE, info |-> i] : i \in InfoPool}

----------------------------------------------------------------------------
(* generate_investment_report *)

\* A report outcome is a dict; keys names the entries it carries.
NoReport ==
    [keys |-> {}, success |-> FALSE, report |-> "", generated_at |-> 0, error |-> ""]

ReportSuccess(text, t) ==
    [keys |-> {"success", "report", "generated_at"}, success |-> TRUE,
     report |-> text, generated_at |-> t, error |-> ""]

\* A failure dict that also carries a report entry.
ReportFailureWithReport(msg) ==
    [keys |-> {"success", "error", "report"}, success |-> FALSE,
     report |-> "", generated_at |-> 0, error |-> msg]

ReportFailure(msg) ==
    [keys |-> {"success", "error"}, success |-> FALSE,
     report |-> "", generated_at |-> 0, error |-> msg]

NoPrompt == [sent |-> FALSE, ma20 |-> "", ma50 |-> "", rsi |-> ""]

\* A comparison that takes an undefined average for one below every price.
AboveMissingIsLow(close, ma) == ~ma.def \/ close * ma.den > ma.num

\* latest['Close'] > latest['MA20']: a comparison with NaN is False.
Above(close, ma) == ma.def /\ close * ma.den > ma.num

MaSignal(close, ma) == IF Above(close, ma) THEN "above" ELSE "below"

\* A classification whose thresholds include the boundary values.
RsiSignalInclusive(rsi) ==
    IF rsi.def /\ rsi.num >= 70 * rsi.den THEN "overbought"
    ELSE IF rsi.def /\ rsi.num <= 30 * rsi.den THEN "oversold"
    ELSE "neutral"

\* rsi_value > 70 / rsi_value < 30; both are False for NaN.
RsiSignal(rsi) ==
    IF rsi.def /\ rsi.num > 70 * rsi.den THEN "overbought"
    ELSE IF rsi.def /\ rsi.num < 30 * rsi.den THEN "oversold"
    ELSE "neutral"

BuildPrompt(stock_data) ==
    LET latest == stock_data[Len(stock_data)]
    IN  [sent |-> TRUE,
         ma20 |-> MaSignal(latest.close, latest.MA20),
         ma50 |-> MaSignal(latest.close, latest.MA50),
         rsi  |-> RsiSignal(latest.RSI)]

\* A body that reads only the latest bar before calling the backend.
ReportStopLatestOnly(client, stock_data, backend) ==
    IF ~client THEN "no_client"
    ELSE IF Len(stock_data) < 1 THEN "index"
    ELSE IF backend = "raise" THEN "backend"
    ELSE "ok"

\* Where the body of the try block stops (lines 178-250):
\*   "no_client"  line 179 raises,
\*   "index"      stock_data.iloc[-1] or iloc[-2] raises IndexError,
\*   "backend"    generate_content raises,
\*   "ok"         the success dict is returned.
\* backend is what generate_content does when it is called.
ReportStop(client, stock_data, backend) ==
    IF ~client THEN "no_client"
    ELSE IF Len(stock_data) < 2 THEN "index"
    ELSE IF backend = "raise" THEN "backend"
    ELSE "ok"

\* generate_content (line 236) is reached when nothing before it raised.
BackendInvoked(client, stock_data) == ReportStop(client, stock_data, "text") = "ok"

ReportError(stop) ==
    CASE stop = "no_client" -> "Gemini client not initialized. Please check your credentials."
      [] stop = "index"     -> "single positional indexer is out-of-bounds"
      [] OTHER              -> "backend error"

\* The outcome of generate_investment_report: the except clause turns every
\* exception of the body into the failure dict.
generate_investment_report(client, stock_data, backend, t) ==
    LET stop == ReportStop(client, stock_data, backend)
    IN  IF stop = "ok" THEN ReportSuccess("report text", t)
        ELSE ReportFailure(ReportError(stop))

----------------------------------------------------------------------------
(* Cache files *)

NoFile == [exists |-> FALSE, lines |-> << >>, mtime |-> 0]

\* A validity rule that still honours an entry aged exactly one TTL.
is_cache_valid_inclusive(symbol) ==
    IF ~files[symbol].exists THEN FALSE
    ELSE LET age == now - files[symbol].mtime
         IN  age <= CacheTtlSeconds

\* is_cache_valid: the file exists and its age is below the TTL.
is_cache_valid(symbol) ==
    IF ~files[symbol].exists THEN FALSE
    ELSE LET age == now - files[symbol].mtime
         IN  age < CacheTtlSeconds

\* open(path, 'w'): the file is created or truncated to zero bytes.
Truncated(t) == [exists |-> TRUE, lines |-> << >>, mtime |-> t]

\* Writing from offset 0 replaces the leading lines of whatever the file holds
\* and keeps what lies beyond (another writer's lines written after the
\* truncation).
Overlay(mine, old) ==
    IF Len(old) > Len(mine) THEN mine \o SubSeq(old, Len(mine) + 1, Len(old)) ELSE mine

\* A save that stamps the file but loses the frame.
WrittenNothing(df, old, t) == [exists |-> TRUE, lines |-> old.lines, mtime |-> t]

Written(df, old, t) == [exists |-> TRUE, lines |-> Overlay(to_csv(df), old.lines), mtime |-> t]

----------------------------------------------------------------------------
(* fetch_stock_data: one pass of the retry loop *)

ErrorResponse == [kind |-> "error", df |-> NoDf]
DataResponse(df) == [kind |-> "data", df |-> df]

\* What stock.history can do: raise, return an empty frame, return a series.
UpstreamResponses == {ErrorResponse, DataResponse(NoDf)} \cup {DataResponse(d) : d \in SeriesPool}

RespKind(resp) ==
    IF resp.kind = "error" THEN "error" ELSE IF resp.df = NoDf THEN "empty" ELSE "data"

\* A try block without the df.empty test.
TryBodyNoEmptyTest(attempt, resp) == IF resp.kind = "error" THEN "raise" ELSE "save"

\* The try block (lines 98-114) for loop index attempt (0-based):
\* "save" goes on to to_csv, "retry" sleeps and continues, "raise" leaves the
\* block with an exception.
TryBody(attempt, resp) ==
    IF resp.kind = "error" THEN "raise"
    ELSE IF resp.df = NoDf
         THEN (IF attempt < max_retries - 1 THEN "retry" ELSE "raise")
         ELSE "save"

\* A handler that gives up one pass early.
ExceptHandlerEarly(attempt) == IF attempt < max_retries - 2 THEN "retry" ELSE "fail"

\* The except clause (lines 116-122).
ExceptHandler(attempt) == IF attempt < max_retries - 1 THEN "retry" ELSE "fail"

AttemptOutcome(attempt, resp) ==
    IF TryBody(attempt, resp) = "raise" THEN ExceptHandler(attempt) ELSE TryBody(attempt, resp)

NoExc == [type |-> "none", msg |-> "", symbol |-> "", attempts |-> 0, cause |-> ""]

\* line 122
FetchFailed(symbol, cause) ==
    [type |-> "Exception", msg |-> "Failed to fetch data", symbol |-> symbol,
     attempts |-> max_retries, cause |-> cause]

EmptyDataError(symbol) ==
    [type |-> "EmptyDataError", msg |-> "No columns to parse from file", symbol |-> symbol,
     attempts |-> 0, cause |-> ""]

----------------------------------------------------------------------------
(* Request threads *)

NoResponse ==
    [status |-> 0, keys |-> {}, error |-> "", current_price |-> 0,
     price_data |-> NoFrame, cache_status |-> "", report |-> NoReport]

IdleProc ==
    [op |-> "none", symbol |-> "", pc |-> "idle",
     hit |-> FALSE, attempt |-> 0, calls |-> 0, delays |-> 0,
     upstream |-> NoDf, df |-> NoDf, source |-> "none", exc |-> NoExc,
     frame |-> NoFrame, metadata |-> NoMeta, metaCalls |-> 0, metaRaised |-> FALSE,
     prompt |-> NoPrompt, backendCalls |-> 0, backendResult |-> "none", report |-> NoReport,
     response |-> NoResponse]

\* jsonify({'error': ...}), status
ErrorBody(status, msg) ==
    [NoResponse EXCEPT !.status = status, !.keys = {"error"}, !.error = msg]

\* An except clause that forgets the status code.
RouteExceptNoStatus(exc) == ErrorBody(200, exc.msg)

\* The except clause of a route (lines 302-303, 326-327).
RouteExcept(exc) == ErrorBody(500, exc.msg)

Init ==
    /\ now = 0
    /\ files = [s \in RequestSymbols |-> NoFile]
    /\ procs = [p \in Procs |-> IdleProc]
    /\ gemini_client \in BOOLEAN

Set(p, rec) == procs' = [procs EXCEPT ![p] = rec]

\* Time passes.
Tick ==
    /\ \E t \in Times : t > now /\ now' = t
    /\ UNCHANGED <<files, procs, gemini_client>>

\* A request arrives at /api/stock/<symbol> or /api/report/<symbol>
\* (lines 270-271, 310-311): unsupported symbols are answered with 400.
\* A route that lacks the registry test of lines 268 / 308.
RouteNoSymbolCheck(p, op, symbol) ==
    /\ procs[p].pc \in {"idle", "done"}
    /\ Set(p, [IdleProc EXCEPT !.op = op, !.symbol = symbol, !.pc = "check"])
    /\ UNCHANGED <<now, files, gemini_client>>

Route(p, op, symbol) ==
    /\ procs[p].pc \in {"idle", "done"}
    /\ IF symbol \notin DOMAIN SUPPORTED_STOCKS
       THEN Set(p, [IdleProc EXCEPT !.op = op, !.symbol = symbol, !.pc = "done",
                        !.response = ErrorBody(400, "Unsupported stock symbol")])
       ELSE Set(p, [IdleProc EXCEPT !.op = op, !.symbol = symbol, !.pc = "check"])
    /\ UNCHANGED <<now, files, gemini_client>>

\* fetch_stock_data, line 88: the validity check.
CheckCache(p) ==
    LET r == procs[p]
    IN  /\ r.pc = "check"
        /\ Set(p, [r EXCEPT !.hit = is_cache_valid(r.symbol),
                            !.pc = IF is_cache_valid(r.symbol) THEN "read" ELSE "attempt"])
        /\ UNCHANGED <<now, files, gemini_client>>

\* A cache hit that also refreshes the file's modification time.
ReadCacheTouch(p) ==
    LET r == procs[p]
        f == files[r.symbol]
    IN  /\ r.pc = "read"
        /\ Set(p, [r EXCEPT !.df = IF CanReadCsv(f.lines) THEN read_csv(f.lines) ELSE NoDf,
                            !.source = "cache", !.pc = "indicators"])
        /\ files' = [files EXCEPT ![r.symbol].mtime = now]
        /\ UNCHANGED <<now, gemini_client>>

\* line 90: read the cache file; an exception of read_csv leaves
\* fetch_stock_data and is answered by the route's except clause.
ReadCache(p) ==
    LET r == procs[p]
        f == files[r.symbol]
    IN  /\ r.pc = "read"
        /\ IF CanReadCsv(f.lines)
           THEN Set(p, [r EXCEPT !.df = read_csv(f.lines), !.source = "cache",
                                 !.pc = "indicators"])
           ELSE Set(p, [r EXCEPT !.exc = EmptyDataError(r.symbol), !.pc = "done",
                                 !.response = RouteExcept(EmptyDataError(r.symbol))])
        /\ UNCHANGED <<now, files, gemini_client>>

\* lines 98-122: the thread's record after one upstream call answered resp.
AttemptStep(r, resp) ==
    LET out == AttemptOutcome(r.attempt, resp)
        seen == [r EXCEPT !.calls = r.calls + 1]
    IN  CASE out = "save" ->
               [seen EXCEPT !.upstream = resp.df, !.df = resp.df, !.pc = "open"]
          [] out = "retry" ->
               [seen EXCEPT !.pc = "sleep"]
          [] OTHER ->
               [seen EXCEPT !.exc = FetchFailed(r.symbol, RespKind(resp)),
                            !.pc = "done",
                            !.response = RouteExcept(FetchFailed(r.symbol, RespKind(resp)))]

Attempt(p, resp) ==
    /\ procs[p].pc = "attempt"
    /\ Set(p, AttemptStep(procs[p], resp))
    /\ UNCHANGED <<now, files, gemini_client>>

\* time.sleep(2), then the next pass of the loop.
Sleep(p) ==
    LET r == procs[p]
    IN  /\ r.pc = "sleep"
        /\ \E t \in Times : t >= now + RetryDelay /\ now' = t
        /\ Set(p, [r EXCEPT !.delays = r.delays + 1, !.attempt = r.attempt + 1, !.pc = "attempt"])
        /\ UNCHANGED <<files, gemini_client>>

\* line 112, df.to_csv(path) is not atomic: it opens the file in mode 'w',
\* which truncates it at once, and the lines reach the file only when the
\* writer flushes.  Other threads run in between.  First the open ...
OpenCache(p) ==
    LET r == procs[p]
    IN  /\ r.pc = "open"
        /\ files' = [files EXCEPT ![r.symbol] = Truncated(now)]
        /\ Set(p, [r EXCEPT !.pc = "write"])
        /\ UNCHANGED <<now, gemini_client>>

\* ... write the frame and close; line 114 returns df.
WriteCache(p) ==
    LET r == procs[p]
    IN  /\ r.pc = "write"
        /\ files' = [files EXCEPT ![r.symbol] = Written(r.df, files[r.symbol], now)]
        /\ Set(p, [r EXCEPT !.source = "upstream", !.pc = "indicators"])
        /\ UNCHANGED <<now, gemini_client>>

\* lines 277-278 / 315-316: the derived columns are added to the frame in hand.
Indicators(p) ==
    LET r == procs[p]
    IN  /\ r.pc = "indicators"
        /\ Set(p, [r EXCEPT !.frame = calculate_rsi(calculate_moving_averages(r.df), 14),
                            !.pc = "metadata"])
        /\ UNCHANGED <<now, files, gemini_client>>

\* get_stock_metadata called on its own, for any symbol.
CallMetadata(p, symbol) ==
    /\ procs[p].pc \in {"idle", "done"}
    /\ Set(p, [IdleProc EXCEPT !.op = "metadata", !.symbol = symbol, !.pc = "metadata"])
    /\ UNCHANGED <<now, files, gemini_client>>

\* lines 281 / 319: get_stock_metadata with what the upstream lookup did.
Metadata(p, lookup) ==
    LET r == procs[p]
    IN  /\ r.pc = "metadata"
        /\ Set(p, [r EXCEPT !.metadata = get_stock_metadata(r.symbol, lookup),
                            !.metaCalls = r.metaCalls + 1,
                            !.metaRaised = lookup.raised,
                            !.pc = CASE r.op = "stock"  -> "respond"
                                     [] r.op = "report" -> "synth"
                                     [] OTHER           -> "done"])
        /\ UNCHANGED <<now, files, gemini_client>>

\* lines 285-300: the /api/stock payload.
StockBody(r) ==
    [NoResponse EXCEPT
        !.status = 200,
        !.keys = {"symbol", "name", "metadata", "current_price", "price_data", "cache_status"},
        !.current_price = r.df[Len(r.df)].close,
        !.price_data = r.frame,
        !.cache_status = IF is_cache_valid(r.symbol) THEN "cached" ELSE "fresh"]

Respond(p) ==
    LET r == procs[p]
    IN  /\ r.pc = "respond"
        /\ Set(p, [r EXCEPT !.response = StockBody(r), !.pc = "done"])
        /\ UNCHANGED <<now, files, gemini_client>>

\* generate_investment_report called on its own with any frame.
CallSynth(p, symbol, df) ==
    /\ procs[p].pc \in {"idle", "done"}
    /\ Set(p, [IdleProc EXCEPT !.op = "synth", !.symbol = symbol, !.pc = "synth",
                               !.df = df,
                               !.frame = calculate_rsi(calculate_moving_averages(df), 14),
                               !.metadata = MetaFallback(symbol)])
    /\ UNCHANGED <<now, files, gemini_client>>

\* jsonify(report_data), line 324
ReportBody(rep) ==
    [NoResponse EXCEPT !.status = 200, !.keys = rep.keys, !.error = rep.error, !.report = rep]

\* lines 322-324: generate_investment_report; backend is what the
\* text-generation call does if it is reached.
Synthesize(p, backend) ==
    LET r == procs[p]
        rep == generate_investment_report(gemini_client, r.frame, backend, now)
        called == BackendInvoked(gemini_client, r.frame)
    IN  /\ r.pc = "synth"
        /\ Set(p, [r EXCEPT !.report = rep,
                            !.prompt = IF called THEN BuildPrompt(r.frame) ELSE NoPrompt,
                            !.backendCalls = r.backendCalls + (IF called THEN 1 ELSE 0),
                            !.backendResult = IF called THEN backend ELSE "none",
                            !.response = IF r.op = "report" THEN ReportBody(rep) ELSE NoResponse,
                            !.pc = "done"])
        /\ UNCHANGED <<now, files, gemini_client>>

\* Requests served one at a time by a single thread: every entry point, every
\* symbol.
Next ==
    \/ Tick
    \/ \E op \in {"stock", "report"}, s \in RequestSymbols : Route("r1", op, s)
    \/ CheckCache("r1")
    \/ ReadCache("r1")
    \/ \E resp \in UpstreamResponses : Attempt("r1", resp)
    \/ Sleep("r1")
    \/ OpenCache("r1")
    \/ WriteCache("r1")
    \/ Indicators("r1")
    \/ \E s \in RequestSymbols : CallMetadata("r1", s)
    \/ \E l \in MetaLookups : Metadata("r1", l)
    \/ Respond("r1")
    \/ \E s \in RequestSymbols, df \in SeriesPool \cup {NoDf} : CallSynth("r1", s, df)
    \/ \E b \in {"text", "raise"} : Synthesize("r1", b)

Spec == Init /\ [][Next]_vars

\* Two threads serving /api/stock requests for the same symbol concurrently.
ConcSymbol == "RELIANCE.NS"

InitConc == Init /\ gemini_client = FALSE

NextConc ==
    \/ Tick
    \/ \E p \in Procs : Route(p, "stock", ConcSymbol)
    \/ \E p \in Procs : CheckCache(p)
    \/ \E p \in Procs : ReadCache(p)
    \/ \E p \in Procs, resp \in UpstreamResponses : Attempt(p, resp)
    \/ \E p \in Procs : Sleep(p)
    \/ \E p \in Procs : OpenCache(p)
    \/ \E p \in Procs : WriteCache(p)
    \/ \E p \in Procs : Indicators(p)
    \/ \E p \in Procs, l \in MetaLookups : Metadata(p, l)
    \/ \E p \in Procs : Respond(p)

SpecConc == InitConc /\ [][NextConc]_vars

\* One year of daily bars (period="1y", line 100) is some 250 closes.  The
\* indicator windows need series that long, so the derived columns are
\* followed on series built from a first close and a cycle of day-to-day
\* changes of the close.
MaxBeyond == 1

RECURSIVE SumDeltas(_, _)
SumDeltas(deltas, k) == IF k = 0 THEN 0 ELSE deltas[k] + SumDeltas(deltas, k - 1)

\* The change of the close over the first k steps of the cycle, repeated.
Drift(deltas, k) ==
    (k \div Len(deltas)) * SumDeltas(deltas, Len(deltas)) + SumDeltas(deltas, k % Len(deltas))

MakeSeries(first, deltas, n) == [i \in 1..n |-> Bar(i, first + Drift(deltas, i - 1))]

\* first close and cycle of changes: flat, rising, falling, alternating, a
\* rise every sixteenth bar, a fall every sixteenth bar, and mixed cycles of
\* fourteen and of two changes.
Shapes ==
    { [first |-> 5,   deltas |-> << 0 >>],
      [first |-> 1,   deltas |-> << 1 >>],
      [first |-> 300, deltas |-> << -1 >>],
      [first |-> 10,  deltas |-> << 1, -1 >>],
      [first |-> 10,  deltas |-> << 1, 0, 0, 0, 0, 0, 0, 0, 0, 0, 0, 0, 0, 0, 0, 0 >>],
      [first |-> 100, deltas |-> << -1, 0, 0, 0, 0, 0, 0, 0, 0, 0, 0, 0, 0, 0, 0, 0 >>],
      [first |-> 10,  deltas |-> << 1, 1, 1, 1, 1, 1, 1, -1, -1, -1, 0, 0, 0, 0 >>],
      [first |-> 100, deltas |-> << 1, 1, 1, -1, -1, -1, -1, -1, -1, -1, 0, 0, 0, 0 >>],
      [first |-> 10,  deltas |-> << 3, -1 >>],
      [first |-> 400, deltas |-> << 1, -3 >>] }

\* Lengths around the rolling windows (20, 50, 200) and the RSI period (14).
Lengths == {1, 2} \cup {w + k : w \in {14, 20, 50, 200}, k \in (-1)..MaxBeyond}

LongPool == { MakeSeries(sh.first, sh.deltas, n) : sh \in Shapes, n \in Lengths }

\* A request of either route whose first upstream attempt answered with a
\* series of LongPool and saved it (lines 100-114): the state in which
\* fetch_stock_data returns to its route.
Fetched(op, df) ==
    [IdleProc EXCEPT !.op = op, !.symbol = ConcSymbol, !.pc = "indicators",
                     !.calls = 1, !.upstream = df, !.df = df, !.source = "upstream"]

InitInd ==
    /\ now = 0
    /\ gemini_client = TRUE
    /\ \E op \in {"stock", "report"}, df \in LongPool :
          /\ procs = [p \in Procs |-> IF p = "r1" THEN Fetched(op, df) ELSE IdleProc]
          /\ files = [s \in RequestSymbols |->
                        IF s = ConcSymbol THEN Written(df, NoFile, 0) ELSE NoFile]

\* What the route does with the series: lines 276-300 and 315-321.
NextInd ==
    \/ Indicators("r1")
    \/ \E l \in MetaLookups : Metadata("r1", l)
    \/ Respond("r1")
    \/ \E b \in {"text", "raise"} : Synthesize("r1", b)

SpecInd == InitInd /\ [][NextInd]_vars

----------------------------------------------------------------------------
(* Properties *)

FetchFailure(r) == r.exc.type = "Exception"

\* C1: a call of fetch_stock_data that found the cache invalid and has so far
\* seen only errors and empty frames has made at most 3 upstream calls, has
\* slept once between each two consecutive calls and not after the last, has
\* returned nothing, and ends only after the third call, by raising a failure
\* that names the symbol and the count 3.
C1_ExactlyThreeAttempts ==
    \A p \in Procs :
        LET r == procs[p]
        IN  (r.calls > 0 /\ r.upstream = NoDf) =>
              /\ ~r.hit
              /\ r.calls <= 3
              /\ r.source = "none" /\ r.df = NoDf
              /\ r.pc \in {"attempt", "sleep", "done"}
              /\ (r.pc = "sleep" => r.calls < 3 /\ r.delays = r.calls - 1)
              /\ (r.pc = "attempt" => r.calls < 3 /\ r.delays = r.calls)
              /\ (r.pc = "done" =>
                    /\ r.calls = 3 /\ r.delays = 2
                    /\ FetchFailure(r)
                    /\ r.exc.symbol = r.symbol /\ r.exc.attempts = 3)

C1_Witness ==
    \E p \in Procs :
        /\ procs[p].pc = "done" /\ FetchFailure(procs[p])
        /\ procs[p].calls = 3 /\ procs[p].delays = 2 /\ procs[p].exc.cause = "error"

\* C2: once an upstream call of a request has answered with a non-empty
\* series, that request makes no further upstream call and sleeps no more; the
\* step in which fetch_stock_data returns is the one that has written the
\* lines of that series from the start of the symbol's cache file, stamped
\* with the current time; and the frame returned is exactly that series.
C2_FirstSuccessPersisted ==
    [][\A p \in Procs :
          LET r == procs[p]
              q == procs'[p]
              mine == to_csv(r.upstream)
          IN  /\ (r.upstream # NoDf /\ q.upstream # NoDf) =>
                    /\ q.upstream = r.upstream
                    /\ q.calls = r.calls /\ q.delays = r.delays
                    /\ r.calls = r.attempt + 1 /\ r.calls <= 3
              /\ (r.source = "none" /\ q.source = "upstream") =>
                    /\ r.upstream # NoDf
                    /\ q.df = r.upstream
                    /\ files'[r.symbol].exists
                    /\ files'[r.symbol].mtime = now
                    /\ Len(files'[r.symbol].lines) >= Len(mine)
                    /\ SubSeq(files'[r.symbol].lines, 1, Len(mine)) = mine
                    /\ (Len(files[r.symbol].lines) <= Len(mine) =>
                            files'[r.symbol].lines = mine)
              /\ (q.source = "upstream") => q.df = q.upstream /\ q.exc = NoExc
      ]_vars

C2_Witness ==
    \E p \in Procs :
        /\ procs[p].source = "upstream" /\ procs[p].calls = 3
        /\ procs[p].df = << Bar(1, 2), Bar(2, MaxClose) >>
        /\ files[procs[p].symbol].lines = to_csv(procs[p].df)

\* The part of a thread's record that a caller of fetch_stock_data can
\* observe: everything but the text of the underlying error.
Observable(r) == [r EXCEPT !.exc.cause = ""]

\* C3: in every state in which a request is about to call upstream, an empty
\* frame and a raised error lead to the same next pass, the same sleeps and
\* the same outcome (neither touches the cache); no call of fetch_stock_data
\* has returned an empty frame, no save is of an empty frame, and a cache file
\* that is not in the middle of a save holds at least one bar.
C3_EmptyLikeError ==
    /\ \A p \in Procs :
          LET r == procs[p]
          IN  /\ r.pc = "attempt" =>
                    Observable(AttemptStep(r, DataResponse(NoDf))) =
                        Observable(AttemptStep(r, ErrorResponse))
              /\ r.source # "none" => r.df # NoDf
              /\ r.pc \in {"open", "write"} => r.df # NoDf
    /\ \A s \in RequestSymbols :
          files[s].exists => (files[s].lines = << >> \/ Len(files[s].lines) >= 2)

C3_Witness ==
    \E p \in Procs :
        /\ procs[p].pc = "done" /\ FetchFailure(procs[p])
        /\ procs[p].exc.cause = "empty" /\ procs[p].calls = 3 /\ procs[p].delays = 2

\* C4: is_cache_valid(symbol) is true exactly when the symbol's file exists
\* and less than 86400 seconds have passed since it was last written, before
\* and after every step, and the answer a request gets at line 88 is that
\* value; so while the file is not rewritten, validity once lost stays lost.
C4_ValidityWindow ==
    [][/\ \A s \in RequestSymbols :
            /\ is_cache_valid(s) <=> (files[s].exists /\ now < files[s].mtime + 86400)
            /\ is_cache_valid(s)' <=> (files'[s].exists /\ now' < files'[s].mtime + 86400)
            /\ (files'[s] = files[s] /\ ~is_cache_valid(s)) => ~is_cache_valid(s)'
       /\ \A p \in Procs :
            (procs[p].pc = "check" /\ procs'[p].pc # "check") =>
                /\ procs'[p].hit =
                      (files[procs[p].symbol].exists
                          /\ now - files[procs[p].symbol].mtime < 86400)
                /\ procs'[p].pc = IF procs'[p].hit THEN "read" ELSE "attempt"
      ]_vars

\* A request finds an entry stale at exactly lastWritten + 24h.
C4_Witness ==
    \E p \in Procs :
        /\ procs[p].pc = "attempt" /\ procs[p].calls = 0 /\ ~procs[p].hit
        /\ files[procs[p].symbol].exists
        /\ Len(files[procs[p].symbol].lines) >= 2
        /\ now = files[procs[p].symbol].mtime + 86400

\* C5 (as claimed): a call of fetch_stock_data that found the cache valid at
\* line 88 makes no upstream call and no sleep and returns the series held in
\* the cache file; upstream is called only by calls that found it invalid.
C5_CacheHitReturnsEntry ==
    [][\A p \in Procs :
          LET r == procs[p]
              q == procs'[p]
          IN  /\ (r.pc = "read" /\ q.pc # "read") =>
                    /\ r.hit
                    /\ q.source = "cache" /\ q.exc = NoExc
                    /\ q.df = read_csv(files[r.symbol].lines)
                    /\ q.calls = 0 /\ q.delays = 0
              /\ q.calls > r.calls => ~r.hit
              /\ r.pc = "attempt" => ~r.hit
      ]_vars

Reported(r) == r.report.keys # {}

\* C7: a call of generate_investment_report on a frame of fewer than 2 bars
\* ends with the failure dict (success false, an error entry, no report), has
\* not called the text-generation backend and lets no exception out: the
\* /api/report route answers 200 with that dict.
C7_ShortFrameFails ==
    \A p \in Procs :
        LET r == procs[p]
        IN  (Reported(r) /\ Len(r.frame) < 2) =>
              /\ r.report.success = FALSE
              /\ r.report.keys = {"success", "error"}
              /\ r.backendCalls = 0 /\ r.backendResult = "none" /\ ~r.prompt.sent
              /\ r.exc = NoExc
              /\ r.pc = "done"
              /\ (r.op = "report" => r.response.status = 200 /\ r.response.report = r.report)

\* A configured client, a one-bar frame fetched through /api/report.
C7_Witness ==
    \E p \in Procs :
        /\ gemini_client /\ procs[p].op = "report" /\ Reported(procs[p])
        /\ Len(procs[p].frame) = 1
        /\ procs[p].report.error = "single positional indexer is out-of-bounds"

\* C8: every finished call of generate_investment_report has returned one of
\* the two dicts and raised nothing: {success true, report, generated_at}
\* exactly when the backend was called and returned text, {success false,
\* error} exactly when the client is missing, the frame is too short or the
\* backend call raised; never a dict with both a report and an error.
C8_ReportOutcomeTagged ==
    \A p \in Procs :
        LET r == procs[p]
        IN  /\ Reported(r) =>
                /\ r.exc = NoExc /\ r.pc = "done"
                /\ \/ /\ r.report.keys = {"success", "report", "generated_at"}
                      /\ r.report.success = TRUE
                      /\ r.backendCalls = 1 /\ r.backendResult = "text"
                   \/ /\ r.report.keys = {"success", "error"}
                      /\ r.report.success = FALSE
                      /\ \/ ~gemini_client
                         \/ Len(r.frame) < 2
                         \/ r.backendResult = "raise"
                /\ ~({"report", "error"} \subseteq r.report.keys)
                /\ (r.backendResult = "raise" => r.report.success = FALSE)
                /\ (r.backendResult = "text" => r.report.success = TRUE)
            /\ (r.pc = "done" /\ r.op = "synth") => Reported(r)

\* The backend was called and raised.
C8_Witness ==
    \E p \in Procs :
        /\ Reported(procs[p]) /\ procs[p].backendResult = "raise"
        /\ procs[p].backendCalls = 1
        /\ procs[p].report.keys = {"success", "error"}

\* C9: every call of get_stock_metadata ends with a record and raises
\* nothing; when the upstream lookup raised, the record has sector and
\* industry "N/A", every numeric field 0, and as name the registry's display
\* name of the symbol, or the symbol itself when it is not registered.
C9_MetadataFallback ==
    \A p \in Procs :
        LET r == procs[p]
        IN  /\ r.metaCalls > 0 => r.metadata # NoMeta /\ r.exc = NoExc /\ r.pc # "metadata"
            /\ (r.metaCalls > 0 /\ r.metaRaised) =>
                  /\ r.metadata.sector = "N/A" /\ r.metadata.industry = "N/A"
                  /\ r.metadata.market_cap = 0 /\ r.metadata.pe_ratio = 0
                  /\ r.metadata.dividend_yield = 0
                  /\ r.metadata.w52_high = 0 /\ r.metadata.w52_low = 0
                  /\ r.metadata.name =
                        CASE r.symbol = "RELIANCE.NS" -> "Reliance Industries"
                          [] r.symbol = "TCS.NS"      -> "Tata Consultancy Services"
                          [] r.symbol = "INFY.NS"     -> "Infosys"
                          [] r.symbol = "HDFCBANK.NS" -> "HDFC Bank"
                          [] OTHER                    -> r.symbol

\* The lookup raised for a symbol that is not registered.
C9_Witness ==
    \E p \in Procs :
        /\ procs[p].metaCalls = 1 /\ procs[p].metaRaised
        /\ procs[p].symbol = "BOGUS.NS" /\ procs[p].metadata.name = "BOGUS.NS"

\* C10: a /api/stock or /api/report request whose fetch has exhausted its
\* retries is answered with status 500 and a body that holds only an 'error'
\* entry: no price data, no cached series (stale or not), no metadata, no
\* report; nothing after the fetch has run.
C10_ExhaustedFetchIsError ==
    \A p \in Procs :
        LET r == procs[p]
        IN  (FetchFailure(r) /\ r.op \in {"stock", "report"}) =>
              /\ r.pc = "done"
              /\ r.response.status >= 400 /\ r.response.status = 500
              /\ r.response.keys = {"error"}
              /\ r.response.error # ""
              /\ r.response.price_data = NoFrame /\ r.response.current_price = 0
              /\ r.response.cache_status = ""
              /\ r.response.report = NoReport
              /\ r.df = NoDf /\ r.frame = NoFrame
              /\ r.metaCalls = 0 /\ r.backendCalls = 0 /\ ~Reported(r)

\* /api/report with a stale entry on disk: the entry is not served.
C10_Witness ==
    \E p \in Procs :
        /\ FetchFailure(procs[p]) /\ procs[p].op = "report"
        /\ procs[p].response.status = 500
        /\ files[procs[p].symbol].exists /\ Len(files[procs[p].symbol].lines) >= 2

\* C11: a request to /api/stock or /api/report whose symbol is not in the
\* registry is answered 400 {'error': ...} by the route's first statement: the
\* request is never at the cache test, the cache read, an upstream attempt, the
\* cache write, the metadata lookup or the reasoning backend, it holds no
\* series, and the step that answers it leaves every cache file and the clock
\* as they were.
Unsupported(r) ==
    r.op \in {"stock", "report"} /\ r.symbol \notin DOMAIN SUPPORTED_STOCKS

C11_UnsupportedRejectedEarly ==
    [][\A p \in Procs :
          LET r == procs[p]
              q == procs'[p]
          IN  /\ Unsupported(q) =>
                    /\ q.pc = "done"
                    /\ q.response = ErrorBody(400, "Unsupported stock symbol")
                    /\ ~q.hit /\ q.source = "none" /\ q.df = NoDf /\ q.frame = NoFrame
                    /\ q.calls = 0 /\ q.delays = 0
                    /\ q.metaCalls = 0 /\ q.backendCalls = 0
              /\ (Unsupported(q) /\ q # r) => (files' = files /\ now' = now)
      ]_vars

C11_Witness ==
    \E op \in {"stock", "report"} :
        /\ procs["r1"].op = op
        /\ procs["r1"].symbol = "BOGUS.NS"
        /\ procs["r1"].pc = "done"
        /\ procs["r1"].response.status = 400
        /\ files["RELIANCE.NS"].exists

\* C12: in the frame a route holds after calculate_moving_averages, for each
\* window w of 20, 50 and 200 bars and each 0-based index j, the column MA_w is
\* undefined (NaN, not zero) when j < w - 1 and is the arithmetic mean of
\* close[j-w+1 .. j] when j >= w - 1.
MaColumn(row, w) ==
    CASE w = 20 -> row.MA20
      [] w = 50 -> row.MA50
      [] OTHER  -> row.MA200

C12_MovingAverages ==
    \A p \in Procs :
        LET r == procs[p]
        IN  r.frame # NoFrame =>
              /\ Len(r.frame) = Len(r.df)
              /\ \A w \in {20, 50, 200}, j \in 0..(Len(r.df) - 1) :
                    LET ma == MaColumn(r.frame[j + 1], w)
                    IN  IF j < w - 1
                        THEN ma = NaN
                        ELSE /\ ma.def
                             /\ ma.num * w = ma.den * SumClose(r.df, j - w + 2, j + 1)

C12_Witness ==
    LET f == procs["r1"].frame
    IN  /\ Len(f) = 201
        /\ ~f[199].MA200.def /\ f[200].MA200.def /\ f[201].MA200.def
        /\ ~f[19].MA20.def /\ f[20].MA20.def
        /\ ~f[49].MA50.def /\ f[50].MA50.def
        /\ f[201].MA200.num # f[200].MA200.num

\* The change of the close at 0-based bar j >= 1 (line 135, delta = diff()),
\* and the bars whose window of period deltas j-period+1 .. j is complete.
Delta(df, j) == df[j + 1].close - df[j].close

FullWindows(df, period) == period..(Len(df) - 1)

WindowDeltas(df, period, j) == {Delta(df, k) : k \in (j - period + 1)..j}

\* C13 (as claimed): at every bar with a full RSI window in which no delta is
\* negative (the mean loss is exactly zero), all-zero deltas included, the RSI
\* column is 100 and not NaN.
C13_ZeroLossIsHundred ==
    \A p \in Procs :
        LET r == procs[p]
        IN  r.frame # NoFrame =>
              \A j \in FullWindows(r.df, 14) :
                  (\A d \in WindowDeltas(r.df, 14, j) : d >= 0) =>
                      LET rsi == r.frame[j + 1].RSI
                      IN  rsi.def /\ rsi.num = 100 * rsi.den

\* C14 (as claimed): at every bar with a full RSI window the RSI column is a
\* number in [0, 100], and it is 0 when no delta of the window is positive and
\* at least one is negative.
C14_RsiInRange ==
    \A p \in Procs :
        LET r == procs[p]
        IN  r.frame # NoFrame =>
              \A j \in FullWindows(r.df, 14) :
                  LET rsi == r.frame[j + 1].RSI
                      ds  == WindowDeltas(r.df, 14, j)
                  IN  /\ rsi.def /\ rsi.den > 0
                      /\ 0 <= rsi.num /\ rsi.num <= 100 * rsi.den
                      /\ ((\A d \in ds : d <= 0) /\ (\E d \in ds : d < 0)) => rsi.num = 0

\* C15 (as claimed): calculate_rsi with period 14 leaves the RSI column
\* undefined at every 0-based index j < 14, bar 0 having no delta: the missing
\* delta of bar 0 is never counted as a zero gain or loss.
C15_RsiLeadingUndefined ==
    \A p \in Procs :
        LET r == procs[p]
        IN  r.frame # NoFrame =>
              \A j \in 0..(Len(r.df) - 1) :
                  j < 14 => ~r.frame[j + 1].RSI.def

\* C16 (as claimed): of two requests for one symbol that both found the cache
\* invalid and both fetched, each completes its fetch with the series it
\* fetched itself, and the write that happens last leaves the cache file
\* holding exactly the complete series of its writer, never a mixture.
C16_LastWriterWins ==
    [][\A p \in Procs, o \in Procs :
          LET r == procs[p]
              q == procs'[p]
          IN  (/\ p # o
               /\ r.pc = "write" /\ q.pc # "write"
               /\ ~r.hit /\ ~procs[o].hit
               /\ procs[o].symbol = r.symbol
               /\ procs[o].source = "upstream") =>
                  /\ q.exc = NoExc /\ procs[o].exc = NoExc
                  /\ q.df = r.upstream /\ procs[o].df = procs[o].upstream
                  /\ files'[r.symbol].lines = to_csv(r.df)
      ]_vars

\* C17 (as claimed): a request is at the cache read only after its own
\* is_cache_valid returned True, and under every interleaving the read
\* succeeds and yields a complete series that an earlier save wrote: it never
\* fails for a missing entry and never sees an empty or partly written file.
C17_ReadSeesCompleteEntry ==
    [][\A p \in Procs :
          LET r == procs[p]
              q == procs'[p]
          IN  /\ q.pc = "read" => q.hit
              /\ (r.pc = "read" /\ q.pc # "read") =>
                    /\ files[r.symbol].exists
                    /\ \E d \in SeriesPool : files[r.symbol].lines = to_csv(d)
                    /\ q.exc = NoExc
                    /\ q.df \in SeriesPool
      ]_vars

\* C18 (as claimed): when MA20 (MA50) is undefined on the latest bar of the
\* frame a report prompt was built from, the prompt carries the 'above 20-day
\* MA' ('above 50-day MA') signal.
C18_MissingMaReadsAbove ==
    \A p \in Procs :
        LET r == procs[p]
            latest == r.frame[Len(r.frame)]
        IN  r.prompt.sent =>
              /\ ~latest.MA20.def => r.prompt.ma20 = "above"
              /\ ~latest.MA50.def => r.prompt.ma50 = "above"

\* C18 (amended): when MA20 (MA50) is undefined on the latest bar of the frame
\* a report prompt was built from, the comparison latest close > NaN is False
\* and the prompt carries the 'below 20-day MA' ('below 50-day MA') signal;
\* with a defined average the signal is 'above' exactly when the close is
\* greater than it.
C18_MissingMaReadsBelow ==
    \A p \in Procs :
        LET r == procs[p]
            latest == r.frame[Len(r.frame)]
        IN  r.prompt.sent =>
              /\ ~latest.MA20.def => r.prompt.ma20 = "below"
              /\ ~latest.MA50.def => r.prompt.ma50 = "below"
              /\ latest.MA20.def =>
                    (r.prompt.ma20 = "above" <=> latest.close * latest.MA20.den > latest.MA20.num)
              /\ latest.MA50.def =>
                    (r.prompt.ma50 = "above" <=> latest.close * latest.MA50.den > latest.MA50.num)

\* A report whose frame is long enough for MA20 but not for MA50, the close
\* being above the 20-day average.
C18_Witness ==
    LET r == procs["r1"]
        latest == r.frame[Len(r.frame)]
    IN  /\ r.op = "report" /\ r.pc = "done"
        /\ r.prompt.sent /\ r.backendCalls = 1
        /\ latest.MA20.def /\ ~latest.MA50.def
        /\ r.prompt.ma20 = "above" /\ r.prompt.ma50 = "below"

\* C19: the prompt of a report carries exactly one RSI class: 'overbought'
\* exactly when the RSI of the latest bar is a number greater than 70,
\* 'oversold' exactly when it is a number less than 30, and 'neutral' for
\* every value from 30 to 70, both boundary values included.
C19_RsiClassification ==
    \A p \in Procs :
        LET r == procs[p]
            rsi == r.frame[Len(r.frame)].RSI
        IN  r.prompt.sent =>
              /\ r.prompt.rsi \in {"overbought", "oversold", "neutral"}
              /\ r.prompt.rsi = "overbought" <=> (rsi.def /\ rsi.num > 70 * rsi.den)
              /\ r.prompt.rsi = "oversold" <=> (rsi.def /\ rsi.num < 30 * rsi.den)
              /\ (rsi.def /\ 30 * rsi.den <= rsi.num /\ rsi.num <= 70 * rsi.den) =>
                    r.prompt.rsi = "neutral"

\* A report on a frame whose latest RSI is exactly 70.
C19_Witness ==
    LET r == procs["r1"]
        rsi == r.frame[Len(r.frame)].RSI
    IN  /\ r.op = "report" /\ r.pc = "done"
        /\ r.prompt.sent
        /\ rsi.def /\ rsi.num = 70 * rsi.den
        /\ r.prompt.rsi = "neutral"

\* C20: the derived columns do not depend on later bars.  At every 0-based
\* index j the MA20, MA50, MA200 and RSI of a frame equal those computed from
\* the series cut after bar j; so two series that agree on close[0..i] get
\* the same four values (definedness and number) at every index <= i.
\* calculate_rsi reads only the Close column, so its value at the last bar of
\* the cut series is RsiAt of that series.
C20_NoLookahead ==
    \A p \in Procs :
        LET r == procs[p]
        IN  r.frame # NoFrame =>
              \A j \in 0..(Len(r.df) - 1) :
                  LET cut == SubSeq(r.df, 1, j + 1)
                      ma  == calculate_moving_averages(cut)[j + 1]
                  IN  /\ ma.MA20 = r.frame[j + 1].MA20
                      /\ ma.MA50 = r.frame[j + 1].MA50
                      /\ ma.MA200 = r.frame[j + 1].MA200
                      /\ RsiAt(cut, 14, j + 1) = r.frame[j + 1].RSI

\* A frame of 201 bars in which bar 199 has all four columns defined and bar
\* 200 closes at a different price.
C20_Witness ==
    LET f == procs["r1"].frame
    IN  /\ Len(f) = 201
        /\ f[200].MA20.def /\ f[200].MA50.def /\ f[200].MA200.def /\ f[200].RSI.def
        /\ f[201].close # f[200].close
        /\ f[200].RSI.num # 0 /\ f[200].RSI.num # 100 * f[200].RSI.den

\* C21 (as claimed): in the body of a 200 answer of /api/stock, cache_status
\* is 'fresh' exactly when the series of the request was fetched from the
\* upstream provider, and 'cached' exactly when it was read from the cache
\* file with no upstream call.
C21_CacheStatusTellsSource ==
    \A p \in Procs :
        LET r == procs[p]
        IN  (r.op = "stock" /\ r.pc = "done" /\ r.response.status = 200) =>
              /\ r.response.cache_status \in {"fresh", "cached"}
              /\ r.response.cache_status = "fresh" <=> r.source = "upstream"
              /\ r.response.cache_status = "cached" <=> (r.source = "cache" /\ r.calls = 0)

====
